---- MODULE Spec2Model ----
(***************************************************************************)
(* The `select` command of nu-cli (crates/nu-cli/src/commands/select.rs):  *)
(* it reads a stream of records, accumulates one list of single-field      *)
(* wrapper rows per requested column path in an insertion-ordered map      *)
(* (bring_back), and then emits rows stitched index by index from those    *)
(* lists.                                                                  *)
(***************************************************************************)
EXTENDS Integers, Sequences, FiniteSets, TLC

\* ---------------------------------------------------------------- bounds
\* Largest number of records the input stream delivers.
MaxInput == 2
\* Largest number of column paths on the command line.
MaxFields == 3

\* ---------------------------------------------------------------- values
\* UntaggedValue: Primitive(Int), Primitive(Nothing) and Table(Vec<Value>);
\* tags carry no behaviour here and are left out.
Int_(i) == [kind |-> "int", n |-> i, items |-> <<>>]
Table(s) == [kind |-> "table", n |-> 0, items |-> s]
nothing == [kind |-> "nothing", n |-> 0, items |-> <<>>]

\* A Row (Dictionary) is an ordered list of entries key -> value with
\* unique keys.
DictKeys(d) == [i \in 1..Len(d) |-> d[i].key]
DictVals(d) == [i \in 1..Len(d) |-> d[i].val]
HasKey(d, k) == \E i \in 1..Len(d) : d[i].key = k
KeyIndex(d, k) == IF HasKey(d, k) THEN CHOOSE i \in 1..Len(d) : d[i].key = k ELSE 0

\* TaggedDictBuilder::insert_untagged: an IndexMap insert (an existing key
\* keeps its position and takes the new value).
insert_untagged(d, k, v) ==
    IF HasKey(d, k)
    THEN [d EXCEPT ![KeyIndex(d, k)].val = v]
    ELSE Append(d, [key |-> k, val |-> v])

\* Value::get_data: the field's value, Nothing when the row has no such field.
get_data(row, k) == IF HasKey(row, k) THEN row[KeyIndex(row, k)].val ELSE nothing

\* ---------------------------------------------------------------- inputs
\* Column names; a ColumnPath is a sequence of string members.
Names == {"a", "b"}
ColumnPaths == {<<nm>> : nm \in Names}

\* What a record may hold in each column ("absent": the record has no such
\* field).
CellsOf(nm) ==
    IF nm = "a"
    THEN {Int_(1), Int_(2), Table(<<>>), Table(<<Int_(1), Int_(2)>>)}
    ELSE {Int_(9)}
Absent == [kind |-> "absent", n |-> 0, items |-> <<>>]

MkRecord(ca, cb) ==
    (IF ca = Absent THEN <<>> ELSE <<[key |-> "a", val |-> ca]>>)
    \o (IF cb = Absent THEN <<>> ELSE <<[key |-> "b", val |-> cb]>>)
Records ==
    {MkRecord(ca, cb) : ca \in CellsOf("a") \cup {Absent}, cb \in CellsOf("b") \cup {Absent}}

SeqsUpTo(S, n) == UNION {[1..m -> S] : m \in 0..n}

\* ---------------------------------------------------------------- helpers
\* as_string of Primitive::ColumnPath: the members' names joined by "."; for
\* the one-member paths of ColumnPaths that is the member itself.
as_string(path) == path[1]

\* get_data_by_column_path on a record and a one-member string path: the
\* field's value, or an error when the record has no such field.
get_data_by_column_path(rec, path) ==
    IF HasKey(rec, path[1])
    THEN [ok |-> TRUE, value |-> get_data(rec, path[1])]
    ELSE [ok |-> FALSE, value |-> nothing]

\* bring_back: IndexMap<String, Vec<Value>>, a list of entries key -> group
\* in insertion order.
entry_or_insert(bb, k) ==
    IF \E i \in 1..Len(bb) : bb[i].key = k
    THEN bb
    ELSE Append(bb, [key |-> k, group |-> <<>>])
MapIndex(bb, k) == CHOOSE i \in 1..Len(bb) : bb[i].key = k
MapHas(bb, k) == \E i \in 1..Len(bb) : bb[i].key = k
MapGet(bb, k) == bb[MapIndex(bb, k)].group
MapKeys(bb) == [i \in 1..Len(bb) |-> bb[i].key]
MapValues(bb) == [i \in 1..Len(bb) |-> bb[i].group]

\* A wrapper row put at the front of the key's group.
push_wrapper_front(bb, k, x) ==
    LET b2 == entry_or_insert(bb, k)
        out == insert_untagged(<<>>, k, x)
    IN [b2 EXCEPT ![MapIndex(b2, k)].group = <<out>> \o @]

\* One wrapper row {key: x} pushed on the key's group.
push_wrapper(bb, k, x) ==
    LET b2 == entry_or_insert(bb, k)
        out == insert_untagged(<<>>, k, x)
    IN [b2 EXCEPT ![MapIndex(b2, k)].group = Append(@, out)]

\* `for x in records { ... group.push(out) }`
RECURSIVE push_each(_, _, _)
push_each(bb, k, records) ==
    IF records = <<>>
    THEN bb
    ELSE push_each(push_wrapper(bb, k, Head(records)), k, Tail(records))

\* The flattening arm without the loop: the table pushed as one entry.
match_ok_noflatten(bb, k, results) == push_wrapper(bb, k, results)

\* The Ok arm with the key ensured even for an empty table.
match_ok_ensure(bb, k, results) ==
    IF results.kind = "table"
    THEN push_each(entry_or_insert(bb, k), k, results.items)
    ELSE push_wrapper(bb, k, results)

\* `match results.value { Table(records) => ..., x => ... }`
match_ok(bb, k, results) ==
    IF results.kind = "table"
    THEN push_each(bb, k, results.items)
    ELSE push_wrapper(bb, k, results)

\* `let strict: Option<bool> = None;`
strict_some == "Some"
strict == "None"

\* ---------------------------------------------------------------- ordering
\* Ord on String for the names in use (byte order).
StrRank(s) == IF s = "a" THEN 1 ELSE 2
Sign(i, j) == IF i < j THEN -1 ELSE IF i > j THEN 1 ELSE 0
StrCmp(s, t) == Sign(StrRank(s), StrRank(t))

RECURSIVE StrVecCmp(_, _)
StrVecCmp(x, y) ==
    IF x = <<>> \/ y = <<>>
    THEN Sign(Len(x), Len(y))
    ELSE IF StrCmp(Head(x), Head(y)) # 0
         THEN StrCmp(Head(x), Head(y))
         ELSE StrVecCmp(Tail(x), Tail(y))

\* Ord on the values held in rows: Primitive before Table, Nothing before
\* Int, tables element by element.
KindRank(v) == IF v.kind = "nothing" THEN 0 ELSE IF v.kind = "int" THEN 1 ELSE 2
RECURSIVE ValVecCmp(_, _)
ValCmp(v, w) ==
    IF KindRank(v) # KindRank(w) THEN Sign(KindRank(v), KindRank(w))
    ELSE IF v.kind = "int" THEN Sign(v.n, w.n)
    ELSE ValVecCmp(v.items, w.items)
ValVecCmp(x, y) ==
    IF x = <<>> \/ y = <<>>
    THEN Sign(Len(x), Len(y))
    ELSE IF ValCmp(Head(x), Head(y)) # 0
         THEN ValCmp(Head(x), Head(y))
         ELSE ValVecCmp(Tail(x), Tail(y))

\* Ord on rows: the key lists first, then the value lists.
RowCmp(r, s) ==
    IF StrVecCmp(DictKeys(r), DictKeys(s)) # 0
    THEN StrVecCmp(DictKeys(r), DictKeys(s))
    ELSE ValVecCmp(DictVals(r), DictVals(s))

\* Ord on Vec<Value>: lexicographic, a proper prefix is smaller.
RECURSIVE VecCmp(_, _)
VecCmp(x, y) ==
    IF x = <<>> \/ y = <<>>
    THEN Sign(Len(x), Len(y))
    ELSE IF RowCmp(Head(x), Head(y)) # 0
         THEN RowCmp(Head(x), Head(y))
         ELSE VecCmp(Tail(x), Tail(y))

\* Iterator::max: the greatest element, the last one among equals.
RECURSIVE IterMax(_, _)
IterMax(best, vs) ==
    IF vs = <<>>
    THEN best
    ELSE IterMax(IF VecCmp(best, Head(vs)) = 1 THEN best ELSE Head(vs), Tail(vs))

\* The length of the longest group (0 for an empty map).
RECURSIVE LongestLen(_)
LongestLen(vs) ==
    IF vs = <<>>
    THEN 0
    ELSE LET r == LongestLen(Tail(vs))
         IN IF Len(Head(vs)) > r THEN Len(Head(vs)) ELSE r

\* Variants of compute_max: the longest group's length; and a width that
\* starts at one.
compute_max_longest(bb) == LongestLen(MapValues(bb))
compute_max_one(bb) ==
    IF bb = <<>> THEN 1 ELSE Len(IterMax(Head(MapValues(bb)), Tail(MapValues(bb))))

\* A width taken from the number of keys.
compute_max_keys(bb) == Len(bb)

\* `let mut max = 0; if let Some(c) = bring_back.values().max() { max = c.len() }`
compute_max(bb) ==
    IF bb = <<>>
    THEN 0
    ELSE Len(IterMax(Head(MapValues(bb)), Tail(MapValues(bb))))

\* A cell that always reads the group's first entry.
cell_first(bb, k, i) ==
    IF MapHas(bb, k)
    THEN IF i + 1 <= Len(MapGet(bb, k))
         THEN get_data(MapGet(bb, k)[1], k)
         ELSE nothing
    ELSE nothing
\* A cell that fills a missing entry with a number.
cell_zero(bb, k, i) ==
    IF MapHas(bb, k)
    THEN IF i + 1 <= Len(MapGet(bb, k))
         THEN get_data(MapGet(bb, k)[i + 1], k)
         ELSE Int_(0)
    ELSE Int_(0)

\* The cell of key k in output row `current` (0-based index).
cell(bb, k, i) ==
    IF MapHas(bb, k)
    THEN IF i + 1 <= Len(MapGet(bb, k))
         THEN get_data(MapGet(bb, k)[i + 1], k)
         ELSE nothing
    ELSE nothing

\* `for k in &keys { ... out.insert_untagged(k, ...) }`
RECURSIVE build_row(_, _, _, _)
build_row(out, ks, bb, i) ==
    IF ks = <<>>
    THEN out
    ELSE build_row(insert_untagged(out, Head(ks), cell(bb, Head(ks), i)), Tail(ks), bb, i)

\* ---------------------------------------------------------------- state
VARIABLES
    fields,        \* SelectArgs.rest as given on the command line
    column_paths,  \* the paths iterated for every record
    consumed,      \* the records input.next() has delivered so far
    value,         \* the record being processed
    pidx,          \* position of the `for path in &column_paths` loop
    bring_back,    \* the accumulation map
    max,           \* the computed width
    keys,          \* bring_back.keys() cloned for the output closure
    current,       \* next index of (0..max)
    output,        \* the rows the output stream has yielded
    pc,            \* start | Collecting | Paths | Synthesizing | Done | Err
    err            \* the ShellError returned, "" when none

vars == <<fields, column_paths, consumed, value, pidx, bring_back, max, keys,
          current, output, pc, err>>

Init ==
    /\ fields \in SeqsUpTo(ColumnPaths, MaxFields)
    /\ column_paths = <<>>
    /\ consumed = <<>>
    /\ value = <<>>
    /\ pidx = 0
    /\ bring_back = <<>>
    /\ max = 0
    /\ keys = <<>>
    /\ current = 0
    /\ output = <<>>
    /\ pc = "start"
    /\ err = ""

\* An entry that skips the emptiness check.
select_entry_unchecked ==
    /\ pc = "start"
    /\ column_paths' = fields
    /\ pc' = "Collecting"
    /\ UNCHANGED <<fields, consumed, value, pidx, bring_back, max, keys, current,
                   output, err>>

\* select(), up to the creation of bring_back.
select_entry ==
    /\ pc = "start"
    /\ IF fields = <<>>
       THEN /\ pc' = "Err"
            /\ err' = "Select requires columns to select"
            /\ UNCHANGED column_paths
       ELSE /\ column_paths' = <<Head(fields)>> \o Tail(fields)
            /\ pc' = "Collecting"
            /\ UNCHANGED err
    /\ UNCHANGED <<fields, consumed, value, pidx, bring_back, max, keys, current, output>>

\* A read of the input that is also possible once the output stream exists.
input_next_some_late ==
    /\ pc \in {"Collecting", "Synthesizing"}
    /\ Len(consumed) < MaxInput
    /\ \E rec \in Records :
         /\ value' = rec
         /\ consumed' = Append(consumed, rec)
    /\ pidx' = 1
    /\ pc' = "Paths"
    /\ UNCHANGED <<fields, column_paths, bring_back, max, keys, current, output, err>>

\* `while let Some(value) = input.next().await`: the stream delivers a record.
input_next_some ==
    /\ pc = "Collecting"
    /\ Len(consumed) < MaxInput
    /\ \E rec \in Records :
         /\ value' = rec
         /\ consumed' = Append(consumed, rec)
    /\ pidx' = 1
    /\ pc' = "Paths"
    /\ UNCHANGED <<fields, column_paths, bring_back, max, keys, current, output, err>>

\* The body of `for path in &column_paths` for one path of the current record.
process_path ==
    /\ pc = "Paths"
    /\ pidx <= Len(column_paths)
    /\ LET path == column_paths[pidx]
           fetcher == get_data_by_column_path(value, path)
           key == as_string(path)
       IN IF fetcher.ok
          THEN /\ bring_back' = match_ok(bring_back, key, fetcher.value)
               /\ pidx' = IF pidx = Len(column_paths) THEN 0 ELSE pidx + 1
               /\ pc' = IF pidx = Len(column_paths) THEN "Collecting" ELSE "Paths"
               /\ UNCHANGED err
          ELSE IF strict # "None"
               THEN /\ pc' = "Err"
                    /\ err' = "No data to fetch."
                    /\ UNCHANGED <<bring_back, pidx>>
               ELSE /\ bring_back' = entry_or_insert(bring_back, key)
                    /\ pidx' = IF pidx = Len(column_paths) THEN 0 ELSE pidx + 1
                    /\ pc' = IF pidx = Len(column_paths) THEN "Collecting" ELSE "Paths"
                    /\ UNCHANGED err
    /\ UNCHANGED <<fields, column_paths, consumed, value, max, keys, current, output>>

\* input.next() returns None: the width and the key list are computed and the
\* output stream is returned.
input_next_none ==
    /\ pc = "Collecting"
    /\ max' = compute_max(bring_back)
    /\ keys' = MapKeys(bring_back)
    /\ current' = 0
    /\ pc' = "Synthesizing"
    /\ UNCHANGED <<fields, column_paths, consumed, value, pidx, bring_back, output, err>>

\* A row production that takes the entries out of the groups as it goes.
emit_row_draining ==
    /\ pc = "Synthesizing"
    /\ current < max
    /\ output' = Append(output, build_row(<<>>, keys, bring_back, 0))
    /\ bring_back' = [i \in 1..Len(bring_back) |->
                        [bring_back[i] EXCEPT !.group = IF @ = <<>> THEN @ ELSE Tail(@)]]
    /\ current' = current + 1
    /\ UNCHANGED <<fields, column_paths, consumed, value, pidx, max, keys, pc, err>>

\* The consumer pulls one row of (0..max).map(...); a consumer that stops
\* pulling leaves the operator in Synthesizing.
emit_row ==
    /\ pc = "Synthesizing"
    /\ current < max
    /\ output' = Append(output, build_row(<<>>, keys, bring_back, current))
    /\ current' = current + 1
    /\ UNCHANGED <<fields, column_paths, consumed, value, pidx, bring_back, max, keys,
                   pc, err>>

\* The consumer pulls after the last row: the stream ends.
stream_end ==
    /\ pc = "Synthesizing"
    /\ current = max
    /\ pc' = "Done"
    /\ UNCHANGED <<fields, column_paths, consumed, value, pidx, bring_back, max, keys,
                   current, output, err>>

Next ==
    \/ select_entry
    \/ input_next_some
    \/ process_path
    \/ input_next_none
    \/ emit_row
    \/ stream_end

Spec == Init /\ [][Next]_vars

TypeOK ==
    /\ pc \in {"start", "Collecting", "Paths", "Synthesizing", "Done", "Err"}
    /\ Len(consumed) <= MaxInput
    /\ current <= max

\* ---------------------------------------------------------------- reference
\* What the input consumed so far contributes to a key, recomputed from the
\* records and the declared paths alone.
Finished == pc \in {"Synthesizing", "Done"}
KeysOf(paths) == [i \in 1..Len(paths) |-> as_string(paths[i])]
Resolves(rec, path) == get_data_by_column_path(rec, path).ok
Flat(rec, path) ==
    LET r == get_data_by_column_path(rec, path)
    IN IF ~r.ok THEN <<>>
       ELSE IF r.value.kind = "table" THEN r.value.items ELSE <<r.value>>

RECURSIVE RecordEntries(_, _, _)
RecordEntries(rec, paths, k) ==
    IF paths = <<>>
    THEN <<>>
    ELSE (IF as_string(Head(paths)) = k THEN Flat(rec, Head(paths)) ELSE <<>>)
         \o RecordEntries(rec, Tail(paths), k)

RECURSIVE Contributed(_, _, _)
Contributed(recs, paths, k) ==
    IF recs = <<>>
    THEN <<>>
    ELSE RecordEntries(Head(recs), paths, k) \o Contributed(Tail(recs), paths, k)

RECURSIVE FirstSeen(_, _)
FirstSeen(seen, ks) ==
    IF ks = <<>>
    THEN seen
    ELSE FirstSeen(IF \E i \in 1..Len(seen) : seen[i] = Head(ks)
                   THEN seen ELSE Append(seen, Head(ks)), Tail(ks))

GroupOf(bb, k) == IF MapHas(bb, k) THEN MapGet(bb, k) ELSE <<>>
Distinct(paths) == \A i, j \in 1..Len(paths) : paths[i] = paths[j] => i = j
Projection(rec, paths) == [i \in 1..Len(paths) |->
                             [key |-> as_string(paths[i]), val |-> get_data(rec, as_string(paths[i]))]]

\* ---------------------------------------------------------------- claims

\* C1: with an empty list of requested paths select fails with the invocation
\* error "Select requires columns to select"; no input record is accumulated
\* and no output record is produced.
C1_EmptyFieldsFail ==
    (fields = <<>> /\ pc # "start") =>
        /\ pc = "Err"
        /\ err = "Select requires columns to select"
        /\ consumed = <<>>
        /\ bring_back = <<>>
        /\ output = <<>>
C1_Witness == fields = <<>> /\ pc = "Err"

\* C2 (as claimed): once the stream has ended, the number of output rows is
\* the length of the longest per-column list (0 when there is none).
C2_WidthIsLongest ==
    pc = "Done" => Len(output) = LongestLen(MapValues(bring_back))

\* C3 (as claimed): the field order of every output record is the first-seen
\* order of the requested column paths, i.e. their declared order.
C3_FieldOrderDeclared ==
    \A i \in 1..Len(output) : DictKeys(output[i]) = FirstSeen(<<>>, KeysOf(fields))

\* C4 (as claimed): when accumulation has finished over at least one record,
\* every requested path's key is in the accumulation map.
C4_AllKeysPresent ==
    (Finished /\ consumed # <<>>) =>
        \A i \in 1..Len(fields) : MapHas(bring_back, as_string(fields[i]))

C6_TableFlattening ==
    [][(pc = "Paths" /\ Resolves(value, column_paths[pidx])) =>
        LET k == as_string(column_paths[pidx])
            vs == Flat(value, column_paths[pidx])
            old == GroupOf(bring_back, k)
            new == GroupOf(bring_back', k)
        IN /\ Len(new) = Len(old) + Len(vs)
           /\ \A j \in 1..Len(old) : new[j] = old[j]
           /\ \A j \in 1..Len(vs) : new[Len(old) + j] = <<[key |-> k, val |-> vs[j]]>>
           /\ \A k2 \in Names \ {k} :
                /\ GroupOf(bring_back', k2) = GroupOf(bring_back, k2)
                /\ MapHas(bring_back', k2) <=> MapHas(bring_back, k2)
           /\ get_data_by_column_path(value, column_paths[pidx]).value.kind # "table"
                => Len(vs) = 1
      ]_vars
C6_Witness ==
    /\ pc = "Collecting"
    /\ Len(consumed) = 1
    /\ column_paths = <<<<"a">>, <<"b">>>>
    /\ get_data(consumed[1], "a") = Table(<<Int_(1), Int_(2)>>)
    /\ get_data(consumed[1], "b") = Int_(9)
    /\ Len(GroupOf(bring_back, "a")) = 2
    /\ Len(GroupOf(bring_back, "b")) = 1

\* C7: for an empty input and a non-empty list of paths the width is 0 and
\* the output is empty.
C7_EmptyInput ==
    (Finished /\ consumed = <<>>) => (max = 0 /\ output = <<>>)
C7_Witness == pc = "Done" /\ consumed = <<>> /\ fields # <<>>

\* C8: a step whose path does not resolve never fails the operator: no error
\* is returned, no entry is recorded in any list, the key is in the map
\* afterwards, and the loop goes on with the next path or the next record.
C8_NotFoundAbsorbed ==
    [][(pc = "Paths" /\ ~Resolves(value, column_paths[pidx])) =>
        /\ pc' = (IF pidx = Len(column_paths) THEN "Collecting" ELSE "Paths")
        /\ pidx' = (IF pidx = Len(column_paths) THEN 0 ELSE pidx + 1)
        /\ err' = ""
        /\ MapHas(bring_back', as_string(column_paths[pidx]))
        /\ \A k \in Names : GroupOf(bring_back', k) = GroupOf(bring_back, k)
        /\ \A k \in Names \ {as_string(column_paths[pidx])} :
             MapHas(bring_back', k) <=> MapHas(bring_back, k)
        /\ consumed' = consumed
      ]_vars
C8_Witness ==
    /\ pc = "Done"
    /\ output # <<>>
    /\ \E p \in 1..Len(column_paths) :
         /\ \E r \in 1..Len(consumed) : ~Resolves(consumed[r], column_paths[p])
         /\ \E r \in 1..Len(consumed) : Resolves(consumed[r], column_paths[p])

\* Scenario D: input [{a:1},{a:2,b:9}], paths [a, b].
ScenarioD ==
    /\ pc = "Done"
    /\ fields = <<<<"a">>, <<"b">>>>
    /\ consumed = << <<[key |-> "a", val |-> Int_(1)]>>,
                     <<[key |-> "a", val |-> Int_(2)], [key |-> "b", val |-> Int_(9)]>> >>

PerColumnLocal ==
    output # <<>> =>
        \A k \in Names :
            LET c == Contributed(consumed, fields, k)
            IN \A i \in 1..Len(output) :
                 i <= Len(c) => (HasKey(output[i], k) /\ get_data(output[i], k) = c[i])
AllScalar ==
    \A r \in 1..Len(consumed) : \A p \in 1..Len(fields) :
        /\ Resolves(consumed[r], fields[p])
        /\ get_data_by_column_path(consumed[r], fields[p]).value.kind # "table"
RowsAreProjections ==
    /\ Len(output) = Len(consumed)
    /\ \A i \in 1..Len(output) : output[i] = Projection(consumed[i], fields)

\* C10 (as claimed): cells are per-column-local, and when every requested path
\* resolves to a non-table value on every record, output row i is the
\* projection of input record i.
C10_PerColumnLocal_AsClaimed ==
    /\ PerColumnLocal
    /\ (pc = "Done" /\ AllScalar) => RowsAreProjections

\* C10 (amended): the same, the projection part for pairwise distinct
\* requested paths.
C10_PerColumnLocal ==
    /\ PerColumnLocal
    /\ (pc = "Done" /\ AllScalar /\ Distinct(fields)) => RowsAreProjections
C10_Witness ==
    /\ pc = "Done"
    /\ AllScalar
    /\ Len(fields) = 2 /\ Distinct(fields)
    /\ Len(consumed) = 2 /\ consumed[1] # consumed[2]
    /\ Len(output) = 2

\* The values held by a key's list, and the number of times a key is requested.
GroupVals(bb, k) == [i \in 1..Len(GroupOf(bb, k)) |-> get_data(GroupOf(bb, k)[i], k)]
Occurrences(k, paths) == Cardinality({i \in 1..Len(paths) : as_string(paths[i]) = k})
RECURSIVE Doubled(_, _)
Doubled(recs, path) ==
    IF recs = <<>>
    THEN <<>>
    ELSE Flat(Head(recs), path) \o Flat(Head(recs), path) \o Doubled(Tail(recs), path)
Settled == pc \in {"Collecting", "Synthesizing", "Done"}

\* The list of a key requested twice holds every record's entries twice,
\* adjacent and in the record's turn, under one map key.
DoubledList(k) ==
    /\ GroupVals(bring_back, k) = Doubled(consumed, <<k>>)
    /\ Len(GroupOf(bring_back, k)) = 2 * Len(Contributed(consumed, <<<<k>>>>, k))
    /\ Cardinality({i \in 1..Len(bring_back) : bring_back[i].key = k}) <= 1

\* C11 (as claimed): a column path requested twice accumulates into one key:
\* every record contributes its entries twice, adjacent and in its own turn,
\* so the list is twice as long as for a single request, and every output
\* record has exactly one field for that key.
C11_DuplicatePathDoubles ==
    Settled =>
        \A k \in Names :
            Occurrences(k, fields) = 2 =>
                /\ DoubledList(k)
                /\ \A i \in 1..Len(output) :
                     Cardinality({j \in 1..Len(output[i]) : output[i][j].key = k}) = 1

\* What the lists hold while the record `value` is in the paths loop: the
\* earlier records in full, then the paths of this record done so far.
IsPrefix(x, y) == Len(x) <= Len(y) /\ \A i \in 1..Len(x) : x[i] = y[i]
AccumulatedInOrder ==
    \A k \in Names :
        IF pc = "Paths"
        THEN GroupVals(bring_back, k) =
                 Contributed(SubSeq(consumed, 1, Len(consumed) - 1), column_paths, k)
                 \o RecordEntries(value, SubSeq(column_paths, 1, pidx - 1), k)
        ELSE Settled => GroupVals(bring_back, k) = Contributed(consumed, column_paths, k)

\* C12: records are taken one at a time in arrival order and, within a record,
\* the paths in declared order; after every step each key's list holds the
\* qualifying entries of the input so far in arrival order (table elements in
\* table order), and a list only ever grows at its end.
C12_ArrivalOrder ==
    [][/\ \A k \in Names : IsPrefix(GroupOf(bring_back, k), GroupOf(bring_back', k))
       /\ AccumulatedInOrder'
       /\ consumed' # consumed =>
            (pc = "Collecting" /\ consumed' = Append(consumed, value') /\ pidx' = 1)
       /\ (pc = "Paths" /\ pc' = "Paths") => (pidx' = pidx + 1 /\ value' = value)
       /\ (pc = "Paths" /\ pc' # "Paths") => pidx = Len(column_paths)
       /\ pc' = "Paths" => column_paths = fields
      ]_vars
C12_Witness ==
    /\ pc = "Collecting"
    /\ fields = <<<<"b">>, <<"a">>>>
    /\ Len(consumed) = 2
    /\ GroupVals(bring_back, "a") = <<Int_(2), Int_(1), Int_(2)>>
    /\ GroupVals(bring_back, "b") = <<Int_(9)>>

\* C13: the operator only moves Collecting -> Synthesizing -> Done: no output
\* row exists before the end of the input was seen, Synthesizing is entered
\* only from Collecting between two records, and from then on no record is
\* read and the operator stays in Synthesizing or Done.
C13_StateMachine ==
    [][/\ output' # output => (pc = "Synthesizing" /\ pc' = "Synthesizing")
       /\ pc \notin {"Synthesizing", "Done"} => output = <<>>
       /\ (pc # "Synthesizing" /\ pc' = "Synthesizing") => (pc = "Collecting" /\ pidx = 0)
       /\ pc = "Synthesizing" => (pc' \in {"Synthesizing", "Done"} /\ consumed' = consumed)
       /\ pc = "Done" => (pc' = "Done" /\ consumed' = consumed /\ output' = output)
       /\ pc' = "Done" => pc \in {"Synthesizing", "Done"}
      ]_vars
C13_Witness == pc = "Done" /\ Len(consumed) = 2 /\ Len(output) = 2

\* C14: from the moment the output stream exists until Done, the accumulation
\* map (keys, key order, every list), the key list and the width do not
\* change, however many rows are pulled.
C14_SynthesisReadOnly ==
    [][(pc = "Synthesizing" \/ pc = "Done") =>
          (bring_back' = bring_back /\ max' = max /\ keys' = keys /\ keys = MapKeys(bring_back))
      ]_vars
C14_Witness == pc = "Done" /\ Len(output) = 3 /\ Len(bring_back) = 2

\* A record makes a path insert its key: the path fails to resolve, or
\* resolves to a non-table value or to a table with at least one element.
InsertsKey(rec, path) ==
    LET r == get_data_by_column_path(rec, path)
    IN ~r.ok \/ r.value.kind # "table" \/ r.value.items # <<>>

\* C15: after accumulation a key is in the map if and only if some record
\* made one of its requested paths insert it; a path that resolved to empty
\* tables only has no key, and so no field in any output record.
C15_KeyPresence ==
    Settled =>
        \A k \in Names :
            /\ MapHas(bring_back, k) <=>
                 \E p \in 1..Len(column_paths) : \E r \in 1..Len(consumed) :
                     as_string(column_paths[p]) = k /\ InsertsKey(consumed[r], column_paths[p])
            /\ \A i \in 1..Len(output) : HasKey(output[i], k) <=> MapHas(bring_back, k)
C15_Witness ==
    /\ pc = "Done"
    /\ fields = <<<<"a">>, <<"b">>>>
    /\ Len(consumed) = 2
    /\ \A r \in 1..2 : get_data(consumed[r], "a") = Table(<<>>) /\ HasKey(consumed[r], "a")
    /\ ~MapHas(bring_back, "a")
    /\ Len(output) = 2
    /\ \A i \in 1..2 : DictKeys(output[i]) = <<"b">>

\* C16: the width is the length of one of the accumulated lists (0 for an
\* empty map), so it never exceeds the longest list's length, and every
\* emitted row has at least one cell that comes from an accumulated entry.
C16_WidthIsSomeListLength ==
    Finished =>
        /\ IF bring_back = <<>>
           THEN max = 0
           ELSE \E i \in 1..Len(bring_back) : max = Len(bring_back[i].group)
        /\ max <= LongestLen(MapValues(bring_back))
        /\ Len(output) <= max
        /\ \A i \in 1..Len(output) :
             \E j \in 1..Len(output[i]) :
                 /\ i <= Len(GroupOf(bring_back, output[i][j].key))
                 /\ output[i][j].val = GroupVals(bring_back, output[i][j].key)[i]
C16_Witness ==
    /\ pc = "Done"
    /\ Len(output) = max
    /\ output # <<>>
    /\ max < LongestLen(MapValues(bring_back))

====
